---- MODULE Spec2Model ----
(***************************************************************************)
(* pip-accel: the local file system cache backend (pip_accel/caches/       *)
(* local.py), the exception hierarchy (pip_accel/exceptions.py) and the    *)
(* cache coordinator's policy over several backends.                       *)
(*                                                                         *)
(* Spec      : independent processes calling LocalCacheBackend.get and     *)
(*             LocalCacheBackend.put on one shared cache directory, one    *)
(*             system call per step.                                       *)
(* CoordSpec : the coordinator sweeping a list of backends.                *)
(***************************************************************************)
EXTENDS Integers, Sequences, FiniteSets, TLC

(* ------------------------------ bounds --------------------------------- *)

\* Number of independent processes (distinct pids) using the cache directory.
NumProcs == 2

\* Longest input stream, in chunks read by shutil.copyfileobj.
MaxLen == 2

Procs == 1..NumProcs

\* Filenames are opaque keys below the cache root; the one used here lives in
\* a subdirectory of it, so that put has a directory chain to create.
Filenames == {"sub/b"}

\* What the handle of process p delivers when it holds n chunks.  Every chunk
\* carries the pid of the process that supplies it, so that the origin of
\* every byte in the cache can be told.
Stream(p, n) == [i \in 1..n |-> p]

\* The byte streams process p may hand to put: the empty stream and a stream
\* of MaxLen chunks.
PayloadsOf(p) == {Stream(p, n) : n \in {0, MaxLen}}

Payloads == UNION {PayloadsOf(p) : p \in Procs}

(* --------------------------- the file system --------------------------- *)

Root == "root"

Dirs == {Root, "root/sub"}

\* os.path.dirname(os.path.join(binary_cache, filename))
Dirname(f) == IF f = "sub/b" THEN "root/sub" ELSE Root

\* The chain of directories os.makedirs has to create for a directory.
DirChain(d) == IF d = Root THEN {Root} ELSE {Root, d}

\* A path under the cache root: tmp = 0 is the path itself, tmp = p is the
\* sibling temporary name that belongs to process p.
Paths == [file : Filenames, tmp : 0..NumProcs]

\* os.path.join(self.config.binary_cache, filename)
PathJoin(f) == [file |-> f, tmp |-> 0]

\* AtomicReplace: the temporary path, in the same directory as the target and
\* unique to the writing process.
TemporaryFile(f, p) == [file |-> f, tmp |-> p]

NoFile == [exists |-> FALSE, data |-> <<>>]

File(d) == [exists |-> TRUE, data |-> d]

None == [file |-> "None", tmp |-> 0]

VARIABLES
    dirs,        \* the directories that exist
    files,       \* path -> NoFile or File(bytes)
    pc,          \* process -> where it is in its call
    fname,       \* process -> the filename argument of its call
    payload,     \* process -> what the handle argument of its put delivers
    pos,         \* process -> chunks copied so far by copyfileobj
    result,      \* process -> what its get returned
    err,         \* process -> the error its call raised
    retrier,     \* the process whose put repeats its own previous put (0: none)
    lastWriter,  \* filename -> the process whose rename committed last (0: none)
    lastCommit,  \* filename -> what that rename committed
    debris,      \* the process whose put started over a longer stale temporary file (0: none)
    backends,    \* the coordinator's backends, in registration order
    cop,         \* the coordinator's operation under way: none, get or put
    idx,         \* how far its sweep over the sorted backends has come
    calls,       \* the backends it has called in this operation, in order
    cres,        \* the outcome of the operation
    raised,      \* the class of the exception raised in a try statement
    handler,     \* the classes its except clauses name, in their order
    caught       \* the clause that caught it (0: none of them, -1: not yet raised)

localVars == <<dirs, files, pc, fname, payload, pos, result, err, retrier,
               lastWriter, lastCommit, debris>>

coordVars == <<backends, cop, idx, calls, cres>>

excVars == <<raised, handler, caught>>

vars == <<localVars, coordVars, excVars>>

(* ----------------------- LocalCacheBackend.get ------------------------- *)

\* os.path.isfile(pathname)
IsFile(fs, path) == fs[path].exists

\* The pathname is returned without the existence check.
LocalGetUnchecked(fs, f) == PathJoin(f)

\* get: the pathname when it is a file of the cache, otherwise None.
LocalGet(fs, f) == IF IsFile(fs, PathJoin(f)) THEN PathJoin(f) ELSE None

NoName == ""

Idle(p) == pc[p] = "idle"

\* A process forgets its locals when its call has returned to its caller.
Reset(p) ==
    /\ fname' = [fname EXCEPT ![p] = NoName]
    /\ payload' = [payload EXCEPT ![p] = <<>>]
    /\ pos' = [pos EXCEPT ![p] = 0]
    /\ result' = [result EXCEPT ![p] = None]
    /\ err' = [err EXCEPT ![p] = "none"]
    /\ retrier' = IF retrier = p THEN 0 ELSE retrier
    /\ debris' = IF debris = p THEN 0 ELSE debris

\* A get that creates the cache directory on its way.
GetMakingDirs(p, f) ==
    /\ Idle(p)
    /\ fname' = [fname EXCEPT ![p] = f]
    /\ result' = [result EXCEPT ![p] = LocalGet(files, f)]
    /\ pc' = [pc EXCEPT ![p] = "get_done"]
    /\ dirs' = dirs \cup DirChain(Dirname(f))
    /\ UNCHANGED <<files, payload, pos, err, retrier, debris, lastWriter, lastCommit>>
    /\ UNCHANGED <<coordVars, excVars>>

\* get(filename): one existence check, nothing else.
Get(p, f) ==
    /\ Idle(p)
    /\ fname' = [fname EXCEPT ![p] = f]
    /\ result' = [result EXCEPT ![p] = LocalGet(files, f)]
    /\ pc' = [pc EXCEPT ![p] = "get_done"]
    /\ UNCHANGED <<dirs, files, payload, pos, err, retrier, debris, lastWriter,
                   lastCommit>>
    /\ UNCHANGED <<coordVars, excVars>>

(* ----------------------- LocalCacheBackend.put ------------------------- *)

\* os.remove(path), tolerating a file that is not there.
Remove(fs, path) == [fs EXCEPT ![path] = NoFile]

\* makedirs(directory): the chain of directories exists afterwards; a
\* directory that is already there is no error.
Makedirs(ds, d) == ds \cup DirChain(d)

\* Whether this call of put finds, under the temporary name it is going to
\* use, a file left by a process that was killed under the same pid and
\* longer than the stream it is going to write: the debris that would show
\* in the result unless the file is started afresh.  One such call at a time
\* is followed (debris).
FoundDebris(p, f, b) ==
    IF /\ debris = 0
       /\ IsFile(files, TemporaryFile(f, p))
       /\ Len(files[TemporaryFile(f, p)].data) > Len(b)
    THEN p
    ELSE debris

\* A put that does not create the directory of the file.
PutWithoutMakedirs(p, f, b) ==
    /\ Idle(p)
    /\ fname' = [fname EXCEPT ![p] = f]
    /\ payload' = [payload EXCEPT ![p] = b]
    /\ pc' = [pc EXCEPT ![p] = "put_open"]
    /\ debris' = FoundDebris(p, f, b)
    /\ UNCHANGED <<dirs, files, pos, result, err, retrier, lastWriter, lastCommit>>
    /\ UNCHANGED <<coordVars, excVars>>

\* A put that deletes the file in the cache before it writes the new one.
PutRemovingFirst(p, f, b) ==
    /\ Idle(p)
    /\ fname' = [fname EXCEPT ![p] = f]
    /\ payload' = [payload EXCEPT ![p] = b]
    /\ dirs' = Makedirs(dirs, Dirname(f))
    /\ files' = Remove(files, PathJoin(f))
    /\ pc' = [pc EXCEPT ![p] = "put_open"]
    /\ debris' = FoundDebris(p, f, b)
    /\ UNCHANGED <<pos, result, err, retrier, lastWriter, lastCommit>>
    /\ UNCHANGED <<coordVars, excVars>>

\* put(filename, handle), up to the atomic-write scope: the target pathname
\* is computed and its directory is created.  The handle delivers b.
Put(p, f, b) ==
    /\ Idle(p)
    /\ fname' = [fname EXCEPT ![p] = f]
    /\ payload' = [payload EXCEPT ![p] = b]
    /\ dirs' = Makedirs(dirs, Dirname(f))
    /\ pc' = [pc EXCEPT ![p] = "put_open"]
    /\ debris' = FoundDebris(p, f, b)
    /\ UNCHANGED <<files, pos, result, err, retrier, lastWriter, lastCommit>>
    /\ UNCHANGED <<coordVars, excVars>>

\* The caller of a put that succeeded calls put again, with the same filename
\* and a handle that delivers the same bytes.  One such caller at a time is
\* followed (retrier).
PutAgain(p) ==
    /\ pc[p] = "put_done"
    /\ retrier = 0
    /\ retrier' = p
    /\ debris' = IF debris = p THEN 0 ELSE debris
    /\ pos' = [pos EXCEPT ![p] = 0]
    /\ dirs' = Makedirs(dirs, Dirname(fname[p]))
    /\ pc' = [pc EXCEPT ![p] = "put_open"]
    /\ UNCHANGED <<files, fname, payload, result, err, lastWriter, lastCommit>>
    /\ UNCHANGED <<coordVars, excVars>>

\* The temporary file is left where it is.
AbortLeavingFile(fs, f, p) == fs

\* AtomicReplace.__exit__ with an exception: the temporary file is deleted
\* and the target is not touched.
Abort(fs, f, p) == Remove(fs, TemporaryFile(f, p))

\* The archive is written straight to its final pathname.
OpenPathDirect(f, p) == PathJoin(f)

\* Every process writes to one and the same temporary name.
OpenPathShared(f, p) == TemporaryFile(f, 1)

\* The path put opens for writing: the temporary file AtomicReplace yields.
OpenPath(f, p) == TemporaryFile(f, p)

\* open(path, 'ab'): what the file already holds is kept.
OpenAb(fs, path) == [fs EXCEPT ![path] = File(@.data)]

\* open(path, 'wb'): the file is created, or truncated when it exists.
OpenWb(fs, path) == [fs EXCEPT ![path] = File(<<>>)]

\* The temporary file is opened only when no other process is writing one for
\* the same target: a put waits for the put before it.
PutOpenExclusive(p) ==
    /\ pc[p] = "put_open"
    /\ \A q \in Procs \ {p} :
          ~(pc[q] \in {"put_copy", "put_exit"} /\ fname[q] = fname[p])
    /\ IF Dirname(fname[p]) \in dirs
       THEN /\ files' = OpenWb(files, OpenPath(fname[p], p))
            /\ pc' = [pc EXCEPT ![p] = "put_copy"]
            /\ err' = err
       ELSE /\ files' = Abort(files, fname[p], p)
            /\ pc' = [pc EXCEPT ![p] = "put_failed"]
            /\ err' = [err EXCEPT ![p] = "ENOENT"]
    /\ UNCHANGED <<dirs, fname, payload, pos, result, retrier, debris, lastWriter,
                   lastCommit>>
    /\ UNCHANGED <<coordVars, excVars>>

\* The atomic-write scope is entered and the temporary file is opened.  In a
\* directory that does not exist open() raises, and the scope is left with
\* the exception.
PutOpen(p) ==
    /\ pc[p] = "put_open"
    /\ IF Dirname(fname[p]) \in dirs
       THEN /\ files' = OpenWb(files, OpenPath(fname[p], p))
            /\ pc' = [pc EXCEPT ![p] = "put_copy"]
            /\ err' = err
       ELSE /\ files' = Abort(files, fname[p], p)
            /\ pc' = [pc EXCEPT ![p] = "put_failed"]
            /\ err' = [err EXCEPT ![p] = "ENOENT"]
    /\ UNCHANGED <<dirs, fname, payload, pos, result, retrier, debris, lastWriter,
                   lastCommit>>
    /\ UNCHANGED <<coordVars, excVars>>

\* One round of shutil.copyfileobj's loop: the next chunk of the handle is
\* appended to the open file.
WriteChunk(fs, path, b, n) ==
    [fs EXCEPT ![path] = File(Append(@.data, b[n + 1]))]

\* A single read of the handle instead of a loop.
CopyDoneAfterOneRead(b, n) == n >= 1 \/ n >= Len(b)

\* The loop ends when a read of the handle returns nothing.
CopyDone(b, n) == n >= Len(b)

\* copyfileobj copies until the handle is exhausted; then the inner with
\* statement closes the file.
PutCopy(p) ==
    /\ pc[p] = "put_copy"
    /\ IF ~CopyDone(payload[p], pos[p])
       THEN /\ files' = WriteChunk(files, OpenPath(fname[p], p), payload[p], pos[p])
            /\ pos' = [pos EXCEPT ![p] = @ + 1]
            /\ pc' = pc
       ELSE /\ pc' = [pc EXCEPT ![p] = "put_exit"]
            /\ UNCHANGED <<files, pos>>
    /\ UNCHANGED <<dirs, fname, payload, result, err, retrier, debris, lastWriter,
                   lastCommit>>
    /\ UNCHANGED <<coordVars, excVars>>

\* os.rename(source, target): the target path holds the source's file, the
\* source name is gone.
Rename(fs, source, target) ==
    [fs EXCEPT ![target] = fs[source], ![source] = NoFile]

\* AtomicReplace.__exit__ without an exception: the temporary file is moved
\* into place.  A rename whose source is missing raises.
PutExit(p) ==
    /\ pc[p] = "put_exit"
    /\ LET tmp == TemporaryFile(fname[p], p)
           f == fname[p]
       IN IF IsFile(files, tmp)
          THEN /\ files' = Rename(files, tmp, PathJoin(f))
               /\ lastWriter' = [lastWriter EXCEPT ![f] = p]
               /\ lastCommit' = [lastCommit EXCEPT ![f] = File(payload[p])]
               /\ pc' = [pc EXCEPT ![p] = "put_done"]
               /\ err' = err
          ELSE /\ pc' = [pc EXCEPT ![p] = "put_failed"]
               /\ err' = [err EXCEPT ![p] = "ENOENT"]
               /\ UNCHANGED <<files, lastWriter, lastCommit>>
    /\ UNCHANGED <<dirs, fname, payload, pos, result, retrier, debris>>
    /\ UNCHANGED <<coordVars, excVars>>

(* ------------------------------ faults --------------------------------- *)

\* makedirs cannot create the directory (permissions, read-only medium): the
\* error leaves put before the atomic-write scope is entered.
FailMakedirs(p, f, b) ==
    /\ Idle(p)
    /\ Dirname(f) \notin dirs
    /\ fname' = [fname EXCEPT ![p] = f]
    /\ payload' = [payload EXCEPT ![p] = b]
    /\ pc' = [pc EXCEPT ![p] = "put_failed"]
    /\ err' = [err EXCEPT ![p] = "EIO"]
    /\ UNCHANGED <<dirs, files, pos, result, retrier, debris, lastWriter, lastCommit>>
    /\ UNCHANGED <<coordVars, excVars>>

\* open() fails, or a read of the handle or a write to the file fails while
\* copying: the exception leaves the atomic-write scope.
FailInScope(p) ==
    /\ pc[p] \in {"put_open", "put_copy"}
    /\ files' = Abort(files, fname[p], p)
    /\ pc' = [pc EXCEPT ![p] = "put_failed"]
    /\ err' = [err EXCEPT ![p] = "EIO"]
    /\ UNCHANGED <<dirs, fname, payload, pos, result, retrier, debris, lastWriter, lastCommit>>
    /\ UNCHANGED <<coordVars, excVars>>

\* The process is killed in the middle of put: nothing is cleaned up.  A
\* later process may run under the same pid.
Kill(p) ==
    /\ pc[p] \in {"put_open", "put_copy", "put_exit"}
    /\ pc' = [pc EXCEPT ![p] = "idle"]
    /\ Reset(p)
    /\ UNCHANGED <<dirs, files, lastWriter, lastCommit>>
    /\ UNCHANGED <<coordVars, excVars>>

\* The call returns to its caller (a value, or the exception it raised).
Return(p) ==
    /\ pc[p] \in {"get_done", "put_done", "put_failed"}
    /\ pc' = [pc EXCEPT ![p] = "idle"]
    /\ Reset(p)
    /\ UNCHANGED <<dirs, files, lastWriter, lastCommit>>
    /\ UNCHANGED <<coordVars, excVars>>
(* --------------------------- specification ----------------------------- *)

LocalInit ==
    /\ dirs = {}
    /\ files = [path \in Paths |-> NoFile]
    /\ pc = [p \in Procs |-> "idle"]
    /\ fname = [p \in Procs |-> NoName]
    /\ payload = [p \in Procs |-> <<>>]
    /\ pos = [p \in Procs |-> 0]
    /\ result = [p \in Procs |-> None]
    /\ err = [p \in Procs |-> "none"]
    /\ retrier = 0
    /\ lastWriter = [f \in Filenames |-> 0]
    /\ lastCommit = [f \in Filenames |-> NoFile]
    /\ debris = 0

\* No coordinator operation is under way.
NoResult == [kind |-> "none", backend |-> 0]

\* No try statement is under way.
ExcInit ==
    /\ raised = "none"
    /\ handler = <<>>
    /\ caught = -1

Init ==
    /\ LocalInit
    /\ backends = <<>>
    /\ cop = "none"
    /\ idx = 0
    /\ calls = <<>>
    /\ cres = NoResult
    /\ ExcInit

Next ==
    \/ \E p \in Procs, f \in Filenames : Get(p, f)
    \/ \E p \in Procs : \E f \in Filenames, b \in PayloadsOf(p) : Put(p, f, b)
    \/ \E p \in Procs : PutAgain(p)
    \/ \E p \in Procs : PutOpen(p)
    \/ \E p \in Procs : PutCopy(p)
    \/ \E p \in Procs : PutExit(p)
    \/ \E p \in Procs : \E f \in Filenames, b \in PayloadsOf(p) : FailMakedirs(p, f, b)
    \/ \E p \in Procs : FailInScope(p)
    \/ \E p \in Procs : Kill(p)
    \/ \E p \in Procs : Return(p)

Spec == Init /\ [][Next]_vars

\* The next step of the put of process p: opening the temporary file, a round
\* of the copy loop, leaving the scope.
Progress(p) == PutOpen(p) \/ PutCopy(p) \/ PutExit(p)

\* The steps of the processes without PutAgain, which is a Return followed
\* by a Put of the same stream, taken as one step to mark the caller.
LiveNext ==
    \/ \E p \in Procs, f \in Filenames : Get(p, f)
    \/ \E p \in Procs : \E f \in Filenames, b \in PayloadsOf(p) : Put(p, f, b)
    \/ \E p \in Procs : PutOpen(p)
    \/ \E p \in Procs : PutCopy(p)
    \/ \E p \in Procs : PutExit(p)
    \/ \E p \in Procs : \E f \in Filenames, b \in PayloadsOf(p) : FailMakedirs(p, f, b)
    \/ \E p \in Procs : FailInScope(p)
    \/ \E p \in Procs : Kill(p)
    \/ \E p \in Procs : Return(p)

\* The first process is scheduled fairly: a step of its put that stays
\* possible is taken.  Nothing is assumed of the other processes, which may
\* stall at any step for ever.
LiveSpec == Init /\ [][LiveNext]_vars /\ WF_vars(Progress(1))

(* ----------------------- the exception hierarchy ---------------------- *)

Exceptions ==
    {"PipAcceleratorError", "NothingToDoError", "EnvironmentMismatchError",
     "UnknownDistributionFormat", "BinaryDistributionError",
     "InvalidSourceDistribution", "BuildFailed", "NoBuildOutput",
     "CacheBackendError", "CacheBackendDisabledError", "SystemDependencyError",
     "DependencyInstallationRefused", "DependencyInstallationFailed"}

\* CacheBackendDisabledError declared next to CacheBackendError instead of
\* below it.
BaseFlat(e) ==
    IF e \in Exceptions \ {"PipAcceleratorError"} THEN "PipAcceleratorError"
    ELSE IF e = "PipAcceleratorError" THEN "Exception"
    ELSE "object"

\* The base class each exception class is declared with.
Base(e) ==
    CASE e = "PipAcceleratorError" -> "Exception"
      [] e \in {"NothingToDoError", "EnvironmentMismatchError",
                "UnknownDistributionFormat", "BinaryDistributionError",
                "CacheBackendError", "SystemDependencyError"} -> "PipAcceleratorError"
      [] e \in {"InvalidSourceDistribution", "BuildFailed", "NoBuildOutput"} ->
                "BinaryDistributionError"
      [] e = "CacheBackendDisabledError" -> "CacheBackendError"
      [] e \in {"DependencyInstallationRefused", "DependencyInstallationFailed"} ->
                "SystemDependencyError"
      [] OTHER -> "object"

\* isinstance(an exception of class e, class c): c is e or one of its bases.
RECURSIVE IsA(_, _)
IsA(e, c) ==
    IF e = c THEN TRUE
    ELSE IF e \in Exceptions THEN IsA(Base(e), c)
    ELSE FALSE

\* The most except clauses a try statement has.
MaxClauses == 2

\* The except clauses of a try statement: classes of the hierarchy, tried in
\* the order they are written.
Handlers == UNION {[1..n -> Exceptions] : n \in 1..MaxClauses}

\* The clause that catches an exception of class e: the first one that names
\* e or a base class of e; 0 when there is none and e propagates.
Match(e, hs) ==
    IF \E k \in DOMAIN hs : IsA(e, hs[k])
    THEN CHOOSE k \in DOMAIN hs :
            /\ IsA(e, hs[k])
            /\ \A j \in 1..(k - 1) : ~IsA(e, hs[j])
    ELSE 0

\* A try statement with some except clauses, in which some exception of the
\* hierarchy is about to be raised.
HandlerInit ==
    /\ LocalInit
    /\ backends = <<>>
    /\ cop = "none"
    /\ idx = 0
    /\ calls = <<>>
    /\ cres = NoResult
    /\ raised \in Exceptions
    /\ handler \in Handlers
    /\ caught = -1

\* The exception is raised and the except clauses are tried.
Except ==
    /\ caught = -1
    /\ raised \in Exceptions
    /\ caught' = Match(raised, handler)
    /\ UNCHANGED <<raised, handler, localVars, coordVars>>

HandlerNext == Except

HandlerSpec == HandlerInit /\ [][HandlerNext]_vars

(* -------------------------- the coordinator ---------------------------- *)

\* The most backends a session is constructed with.
MaxBackends == 3

\* A local backend that sorts behind the remote ones.
PRIORITYBehindRemote == 20 + 10

\* LocalCacheBackend.PRIORITY
PRIORITY == 10

\* The priorities of the backends of a session: the local backend's and one
\* on either side of it.
Priorities == {5, PRIORITY, 20}

\* A backend: its priority, whether it is the local backend (the one a put
\* must reach), what state it is in (ok; disabled: every call raises
\* CacheBackendDisabledError; broken: every call raises CacheBackendError)
\* and whether it holds the artifact.
Backends ==
    {b \in [priority : Priorities, local : BOOLEAN,
            status : {"ok", "disabled", "broken"}, has : BOOLEAN] :
        /\ b.local => b.priority = PRIORITY
        /\ b.has => b.status = "ok"}

\* The sessions: up to MaxBackends backends in registration order, at most
\* one of them the local backend.
Sessions ==
    {bs \in UNION {[1..n -> Backends] : n \in 1..MaxBackends} :
        Cardinality({i \in DOMAIN bs : bs[i].local}) <= 1}

\* i is put in front of the backends of equal priority: the sort is not
\* stable.
RECURSIVE InsertBeforeTies(_, _, _)
InsertBeforeTies(sorted, i, bs) ==
    IF sorted = <<>> THEN <<i>>
    ELSE IF bs[Head(sorted)].priority < bs[i].priority
         THEN <<Head(sorted)>> \o InsertBeforeTies(Tail(sorted), i, bs)
         ELSE <<i>> \o sorted

\* i is put into a list of backends sorted by priority, behind every backend
\* whose priority is not greater.
RECURSIVE Insert(_, _, _)
Insert(sorted, i, bs) ==
    IF sorted = <<>> THEN <<i>>
    ELSE IF bs[Head(sorted)].priority <= bs[i].priority
         THEN <<Head(sorted)>> \o Insert(Tail(sorted), i, bs)
         ELSE <<i>> \o sorted

RECURSIVE SortUpTo(_, _)
SortUpTo(bs, n) == IF n = 0 THEN <<>> ELSE Insert(SortUpTo(bs, n - 1), n, bs)

\* sorted(backends, key=priority): ascending, stable on ties.
Sorted(bs) == SortUpTo(bs, Len(bs))

\* What backend.get(filename) does: returns a location or None, or raises.
BackendGet(b) ==
    CASE b.status = "disabled" -> [raises |-> "CacheBackendDisabledError", value |-> "None"]
      [] b.status = "broken" -> [raises |-> "CacheBackendError", value |-> "None"]
      [] OTHER -> [raises |-> "none", value |-> IF b.has THEN "location" ELSE "None"]

\* What backend.put(filename, handle) does: stores the artifact, or raises.
BackendPut(b) ==
    CASE b.status = "disabled" -> [raises |-> "CacheBackendDisabledError", value |-> "None"]
      [] b.status = "broken" -> [raises |-> "CacheBackendError", value |-> "None"]
      [] OTHER -> [raises |-> "none", value |-> "stored"]

\* The handlers of a sweep absorb nothing at all.
AbsorbedNever(e) == FALSE

\* CacheBackendError is absorbed only when it is not the disabled signal.
AbsorbedUnlessDisabled(e) ==
    IsA(e, "CacheBackendError") /\ ~IsA(e, "CacheBackendDisabledError")

\* The coordinator's handlers: CacheBackendDisabledError is caught and the
\* backend skipped; CacheBackendError is caught, logged and the backend
\* skipped.
Absorbed(e) == IsA(e, "CacheBackendDisabledError") \/ IsA(e, "CacheBackendError")

Pending == [kind |-> "pending", backend |-> 0]

CoordIdle == cop = "none"

\* What asking backend i does to the outcome of get: a location ends the
\* sweep at once; None and an absorbed failure leave it pending; a failure
\* that is not absorbed reaches the caller.
GetFrom(bs, i) ==
    LET r == BackendGet(bs[i])
    IN IF r.raises # "none"
       THEN IF Absorbed(r.raises) THEN Pending ELSE [kind |-> r.raises, backend |-> i]
       ELSE IF r.value = "location" THEN [kind |-> "hit", backend |-> i] ELSE Pending

\* What writing to backend i does to the outcome of put: only a failure that
\* is not absorbed ends the sweep.
PutTo(bs, i) ==
    LET r == BackendPut(bs[i])
    IN IF r.raises # "none" /\ ~Absorbed(r.raises)
       THEN [kind |-> r.raises, backend |-> i]
       ELSE Pending

\* The caller asks the coordinator for the artifact.
CoordGet ==
    /\ CoordIdle
    /\ cop' = "get"
    /\ idx' = 1
    /\ calls' = <<>>
    /\ cres' = Pending
    /\ UNCHANGED <<backends, localVars, excVars>>

\* One round of the sweep of get: the next backend in sorted order is asked.
\* A location ends the sweep at once; None and an absorbed failure pass on to
\* the next backend; a failure that is not absorbed reaches the caller.
CoordGetTry ==
    /\ cop = "get"
    /\ cres = Pending
    /\ idx <= Len(backends)
    /\ LET i == Sorted(backends)[idx]
       IN /\ calls' = Append(calls, i)
          /\ idx' = idx + 1
          /\ cres' = GetFrom(backends, i)
    /\ UNCHANGED <<backends, cop, localVars, excVars>>

\* Every backend missed or failed: the overall result is a miss.
CoordGetMiss ==
    /\ cop = "get"
    /\ cres = Pending
    /\ idx > Len(backends)
    /\ cres' = [kind |-> "miss", backend |-> 0]
    /\ UNCHANGED <<backends, cop, idx, calls, localVars, excVars>>

\* The caller pushes a new artifact through the coordinator.
CoordPut ==
    /\ CoordIdle
    /\ cop' = "put"
    /\ idx' = 1
    /\ calls' = <<>>
    /\ cres' = Pending
    /\ UNCHANGED <<backends, localVars, excVars>>

\* The backends whose put raised a failure the sweep absorbed, among those
\* called so far.
FailedPuts(bs, called) ==
    {i \in DOMAIN bs :
        /\ \E k \in DOMAIN called : called[k] = i
        /\ BackendPut(bs[i]).raises # "none"
        /\ ~IsA(BackendPut(bs[i]).raises, "CacheBackendDisabledError")}

\* One round of the sweep of put: the artifact is written to the next
\* backend; a backend that accepts it holds it from now on; a disabled
\* backend is skipped; any other absorbed failure is logged and the sweep
\* goes on.
CoordPutTry ==
    /\ cop = "put"
    /\ cres = Pending
    /\ idx <= Len(backends)
    /\ LET i == Sorted(backends)[idx]
           r == BackendPut(backends[i])
       IN /\ calls' = Append(calls, i)
          /\ idx' = idx + 1
          /\ backends' = IF r.raises = "none"
                         THEN [backends EXCEPT ![i].has = TRUE]
                         ELSE backends
          /\ cres' = PutTo(backends, i)
    /\ UNCHANGED <<cop, localVars, excVars>>

\* The put has failed as soon as the write to any backend failed.
PutOutcomeAnyFailure(bs, called) ==
    IF FailedPuts(bs, called) # {}
    THEN [kind |-> "CacheBackendError",
          backend |-> CHOOSE i \in FailedPuts(bs, called) : TRUE]
    ELSE [kind |-> "ok", backend |-> 0]

\* The outcome of a put whose sweep is over: it has failed when the write to
\* the local backend failed, and has succeeded otherwise.
PutOutcome(bs, called) ==
    IF \E i \in FailedPuts(bs, called) : bs[i].local
    THEN [kind |-> "CacheBackendError",
          backend |-> CHOOSE i \in FailedPuts(bs, called) : bs[i].local]
    ELSE [kind |-> "ok", backend |-> 0]

CoordPutEnd ==
    /\ cop = "put"
    /\ cres = Pending
    /\ idx > Len(backends)
    /\ cres' = PutOutcome(backends, calls)
    /\ UNCHANGED <<backends, cop, idx, calls, localVars, excVars>>

\* The operation returns to its caller.
CoordReturn ==
    /\ cop \in {"get", "put"}
    /\ cres # Pending
    /\ cop' = "none"
    /\ idx' = 0
    /\ calls' = <<>>
    /\ cres' = NoResult
    /\ UNCHANGED <<backends, localVars, excVars>>

\* A session starts with its backends constructed.
CoordInit ==
    /\ LocalInit
    /\ backends \in Sessions
    /\ cop = "none"
    /\ idx = 0
    /\ calls = <<>>
    /\ cres = NoResult
    /\ ExcInit

CoordNext ==
    \/ CoordGet
    \/ CoordGetTry
    \/ CoordGetMiss
    \/ CoordPut
    \/ CoordPutTry
    \/ CoordPutEnd
    \/ CoordReturn

CoordSpec == CoordInit /\ [][CoordNext]_vars

TypeOK ==
    /\ dirs \subseteq Dirs
    /\ \A path \in Paths :
         \/ files[path] = NoFile
         \/ \E b \in Payloads : \E n \in 0..Len(b) : files[path] = File(SubSeq(b, 1, n))
    /\ pc \in [Procs -> {"idle", "get_done", "put_open", "put_copy", "put_exit",
                         "put_done", "put_failed"}]
    /\ \A p \in Procs : payload[p] \in PayloadsOf(p) /\ pos[p] \in 0..Len(payload[p])
    /\ retrier \in 0..NumProcs
    /\ debris \in 0..NumProcs
    /\ lastWriter \in [Filenames -> 0..NumProcs]

(* ------------------------------ claims --------------------------------- *)

\* The stages of put between its call and its return.
PutStages == {"put_open", "put_copy", "put_exit"}

\* Process p is writing its temporary file for f and has part of it on disk.
Writing(p, f) ==
    /\ pc[p] = "put_copy"
    /\ fname[p] = f
    /\ 0 < pos[p]
    /\ pos[p] < Len(payload[p])

\* The step is one of process p.
StepOf(p) == pc'[p] # pc[p] \/ pos'[p] # pos[p]

\* C1: whatever get finds, or has returned, under the final name is the whole
\* payload of a put whose rename has committed - never an empty or partial
\* file that a concurrent put is still writing.
C1_GetSeesOnlyCommittedFiles ==
    /\ \A f \in Filenames :
         IsFile(files, PathJoin(f)) =>
            /\ lastWriter[f] # 0
            /\ files[PathJoin(f)] = lastCommit[f]
            /\ lastCommit[f].data \in Payloads
    /\ \A p \in Procs :
         (pc[p] = "get_done" /\ result[p] # None) =>
            /\ result[p] = PathJoin(fname[p])
            /\ IsFile(files, result[p])
            /\ files[result[p]] = lastCommit[fname[p]]

\* A get has returned the path while another process is halfway through
\* writing a new version of the same file.
C1_Witness ==
    \E p, q \in Procs :
        /\ p # q
        /\ pc[q] = "get_done"
        /\ result[q] = PathJoin(fname[q])
        /\ Writing(p, fname[q])

\* C2: while two processes put the same filename, the target is absent or one
\* complete committed version; once both have finished it is the payload of
\* one of the two; each temporary file holds only its own writer's bytes.
C2_ConcurrentPutsDoNotMix ==
    \A p, q \in Procs :
        (/\ p # q
         /\ pc[p] \in PutStages \cup {"put_done"}
         /\ pc[q] \in PutStages \cup {"put_done"}
         /\ fname[p] = fname[q]) =>
            LET f == fname[p]
                target == files[PathJoin(f)]
            IN /\ target = NoFile \/ target = lastCommit[f]
               /\ target # NoFile => target.data \in Payloads
               /\ (pc[p] = "put_done" /\ pc[q] = "put_done" /\ lastWriter[f] \in {p, q}) =>
                      target \in {File(payload[p]), File(payload[q])}
               /\ pc[p] \in {"put_copy", "put_exit"} =>
                      files[TemporaryFile(f, p)] = File(SubSeq(payload[p], 1, pos[p]))

\* Two puts of different payloads to one filename ran concurrently and both
\* have finished.
C2_Witness ==
    \E p, q \in Procs :
        /\ p # q
        /\ pc[p] = "put_done" /\ pc[q] = "put_done"
        /\ fname[p] = fname[q]
        /\ payload[p] # <<>> /\ payload[q] # <<>>
        /\ lastWriter[fname[p]] = q
        /\ files[PathJoin(fname[p])] = File(payload[q])

\* C3: after put(f, b) has succeeded and while no other put on f has
\* committed since, get(f) returns the path root/f and the file there is b.
C3_ReadAfterWrite ==
    \A p \in Procs :
        (pc[p] = "put_done" /\ lastWriter[fname[p]] = p) =>
            /\ LocalGet(files, fname[p]) = PathJoin(fname[p])
            /\ files[PathJoin(fname[p])] = File(payload[p])

\* A put of a non-empty payload has succeeded and a later get found it.
C3_Witness ==
    \E p, q \in Procs :
        /\ pc[p] = "put_done"
        /\ lastWriter[fname[p]] = p
        /\ Len(payload[p]) = MaxLen
        /\ pc[q] = "get_done"
        /\ result[q] = PathJoin(fname[p])

\* C4: no step of a put other than its commit - the call, the open, a copied
\* chunk, the abort with its cleanup, the death of the process - changes what
\* is at any target path: an aborted put leaves the target as it found it.
C4_AbortedPutLeavesTarget ==
    [][\A p \in Procs :
         (/\ StepOf(p)
          /\ pc[p] \in PutStages \/ pc'[p] \in PutStages \cup {"put_failed"}
          /\ pc'[p] # "put_done") =>
             \A f \in Filenames : files'[PathJoin(f)] = files[PathJoin(f)]]_vars

\* A put was aborted after it had written part of its payload, and the target
\* still holds the earlier version.
C4_Witness ==
    \E p \in Procs :
        /\ pc[p] = "put_failed"
        /\ pos[p] > 0
        /\ IsFile(files, PathJoin(fname[p]))
        /\ lastWriter[fname[p]] # p

\* C5: a get of a filename for which no put has committed returns None and
\* raises nothing, also while a put of it is under way or after one failed.
C5_CleanMiss ==
    [][\A p \in Procs :
         (/\ pc[p] = "idle"
          /\ pc'[p] = "get_done"
          /\ lastWriter[fname'[p]] = 0) =>
             /\ result'[p] = None
             /\ err'[p] = "none"]_vars

\* A get missed while a put of the same filename had bytes in its temporary
\* file and nothing had ever been committed.
C5_Witness ==
    \E p, q \in Procs :
        /\ pc[q] = "get_done"
        /\ result[q] = None
        /\ lastWriter[fname[q]] = 0
        /\ Writing(p, fname[q])

\* C6: the file a put writes to is never one of the cache's final pathnames,
\* and once the put has finished, committed or failed, its temporary file is
\* gone.
C6_NoTemporaryFileLeft ==
    \A p \in Procs :
        /\ pc[p] \in PutStages =>
              OpenPath(fname[p], p) \notin {PathJoin(f) : f \in Filenames}
        /\ pc[p] \in {"put_done", "put_failed"} =>
              /\ ~IsFile(files, OpenPath(fname[p], p))
              /\ ~IsFile(files, TemporaryFile(fname[p], p))

\* A put failed after it had written to its temporary file.
C6_Witness ==
    \E p \in Procs : pc[p] = "put_failed" /\ pos[p] = MaxLen /\ err[p] = "EIO"

\* C7: put(f, b) called again after it succeeded succeeds again unless the
\* environment fails it; after either call no temporary file is left and,
\* while nobody else has committed since, get(f) returns the path and the
\* file is b.
C7_IdempotentRetry ==
    \A p \in Procs :
        /\ (retrier = p /\ pc[p] = "put_failed") => err[p] = "EIO"
        /\ pc[p] = "put_done" =>
              /\ ~IsFile(files, TemporaryFile(fname[p], p))
              /\ lastWriter[fname[p]] = p =>
                    /\ LocalGet(files, fname[p]) = PathJoin(fname[p])
                    /\ files[PathJoin(fname[p])] = File(payload[p])

\* The second of two puts in sequence has succeeded.
C7_Witness ==
    \E p \in Procs :
        /\ retrier = p
        /\ pc[p] = "put_done"
        /\ Len(payload[p]) = MaxLen
        /\ lastWriter[fname[p]] = p

\* C8: a get, hit or miss, changes no file and no directory.
C8_GetChangesNothing ==
    [][\A p \in Procs :
         (pc[p] = "idle" /\ pc'[p] = "get_done") =>
             /\ files' = files
             /\ dirs' = dirs]_vars

\* A get missed in a cache directory that does not exist yet.
C8_Witness ==
    \E p \in Procs : pc[p] = "get_done" /\ result[p] = None /\ dirs = {}

(* ----------------------- claims on the coordinator --------------------- *)

\* The priorities of the backends called so far, in the order of the calls.
CalledPriorities == [k \in DOMAIN calls |-> backends[calls[k]].priority]

IsPrefix(s, t) == Len(s) <= Len(t) /\ \A k \in DOMAIN s : s[k] = t[k]

\* The operation under way has produced its outcome.
Finished(op) == cop = op /\ cres # Pending

\* Backends registered with the priorities 20, 10 (the local backend), 5.
Example9 ==
    /\ Len(backends) = 3
    /\ backends[1].priority = 20
    /\ backends[2].local
    /\ backends[3].priority = 5

\* C9: get calls the backends by ascending priority without leaving one out
\* and stops at the first that returns a location; registered as [20, 10, 5]
\* they are called in the order [5, 10, 20], and when only the priority-10
\* backend holds the artifact it is the result and priority 20 is not called.
C9_AscendingPriorityFirstHit ==
    cop = "get" =>
        /\ \A j, k \in DOMAIN calls :
              j < k => /\ backends[calls[j]].priority <= backends[calls[k]].priority
                       /\ calls[j] # calls[k]
        /\ \A k \in DOMAIN calls : \A i \in DOMAIN backends :
              backends[i].priority < backends[calls[k]].priority =>
                  \E j \in 1..(k - 1) : calls[j] = i
        /\ \A k \in DOMAIN calls :
              BackendGet(backends[calls[k]]).value = "location" =>
                  /\ k = Len(calls)
                  /\ cres = [kind |-> "hit", backend |-> calls[k]]
        /\ Example9 =>
              /\ IsPrefix(CalledPriorities, <<5, 10, 20>>)
              /\ (/\ cres # Pending
                  /\ \A i \in 1..3 : backends[i].status = "ok" /\ (backends[i].has <=> i = 2)) =>
                     /\ cres = [kind |-> "hit", backend |-> 2]
                     /\ calls = <<3, 2>>

\* Registered as [20, 10, 5] with the artifact only behind priority 10, get
\* has returned it after asking priority 5 and priority 10.
C9_Witness ==
    /\ Example9
    /\ \A i \in 1..3 : backends[i].status = "ok" /\ (backends[i].has <=> i = 2)
    /\ cop = "get"
    /\ cres = [kind |-> "hit", backend |-> 2]
    /\ calls = <<3, 2>>

\* The sorted backends without the disabled ones: the order of the sweep of
\* the same session with the disabled backends removed.
WithoutDisabled(bs) ==
    LET Enabled(i) == bs[i].status # "disabled"
    IN SelectSeq(Sorted(bs), Enabled)

\* get as a whole over a list of backends.
RECURSIVE GetSweep(_, _)
GetSweep(bs, order) ==
    IF order = <<>> THEN [kind |-> "miss", backend |-> 0]
    ELSE IF GetFrom(bs, Head(order)) # Pending THEN GetFrom(bs, Head(order))
    ELSE GetSweep(bs, Tail(order))

\* put as a whole over a list of backends.
RECURSIVE PutSweep(_, _, _)
PutSweep(bs, order, called) ==
    IF order = <<>> THEN PutOutcome(bs, called)
    ELSE IF PutTo(bs, Head(order)) # Pending THEN PutTo(bs, Head(order))
    ELSE PutSweep(bs, Tail(order), Append(called, Head(order)))

\* C10: a disabled backend is skipped by get and by put: the outcome is the
\* one the session has with its disabled backends removed; the disabled
\* signal never reaches the caller; a get returns the first location an
\* enabled backend has; a put succeeds when every enabled backend accepts it
\* and fails only when the local backend raised.
C10_DisabledBackendSkipped ==
    /\ cres.kind # "CacheBackendDisabledError"
    /\ Finished("get") =>
          /\ cres = GetSweep(backends, WithoutDisabled(backends))
          /\ (\E i \in DOMAIN backends : backends[i].has) =>
                /\ cres.kind = "hit"
                /\ backends[cres.backend].has
                /\ backends[cres.backend].status = "ok"
    /\ Finished("put") =>
          /\ cres = PutSweep(backends, WithoutDisabled(backends), <<>>)
          /\ (\A i \in DOMAIN backends : backends[i].status \in {"ok", "disabled"}) =>
                cres.kind = "ok"
          /\ cres.kind # "ok" =>
                \E i \in DOMAIN backends : backends[i].local /\ backends[i].status = "broken"
          /\ \A i \in DOMAIN backends :
                /\ backends[i].status = "ok" => backends[i].has
                /\ backends[i].status = "disabled" => ~backends[i].has

\* A put has succeeded in a session whose first backend in the sweep is
\* disabled and whose next one accepted the artifact.
C10_Witness ==
    /\ Finished("put")
    /\ cres.kind = "ok"
    /\ Len(calls) >= 2
    /\ backends[calls[1]].status = "disabled"
    /\ backends[calls[2]].status = "ok"
    /\ backends[calls[2]].has

\* The backends that were called in the operation under way.
Called == {calls[k] : k \in DOMAIN calls}

\* C11: get never surfaces a backend failure: its outcome is a hit or a miss,
\* and when no backend returns a location - each of them missing, disabled or
\* broken - every backend has been asked and the outcome is a miss.
C11_GetNeverSurfacesFailure ==
    /\ cop = "get" => cres.kind \in {"pending", "hit", "miss"}
    /\ Finished("get") =>
          /\ cres.kind \in {"hit", "miss"}
          /\ (\A i \in DOMAIN backends : BackendGet(backends[i]).value # "location") =>
                /\ cres = [kind |-> "miss", backend |-> 0]
                /\ Called = DOMAIN backends

\* A get has ended in a miss in a session of one backend that misses, one
\* that is disabled and one that is broken.
C11_Witness ==
    /\ Finished("get")
    /\ cres.kind = "miss"
    /\ Len(calls) = 3
    /\ {backends[i].status : i \in DOMAIN backends} = {"ok", "disabled", "broken"}

\* C12: put is invoked on every backend of the session whatever the others
\* did; every backend that works holds the artifact afterwards; the put has
\* failed exactly when the write to the local backend raised CacheBackendError
\* (other than the disabled signal).
C12_PutReachesEveryBackend ==
    Finished("put") =>
        /\ Called = DOMAIN backends
        /\ Len(calls) = Len(backends)
        /\ \A i \in DOMAIN backends : backends[i].status = "ok" => backends[i].has
        /\ cres.kind \in {"ok", "CacheBackendError"}
        /\ cres.kind # "ok" <=>
              \E i \in DOMAIN backends : backends[i].local /\ backends[i].status = "broken"

\* A put has succeeded although the first backend it wrote to, a remote one,
\* raised CacheBackendError: the local backend behind it holds the artifact.
C12_Witness ==
    /\ Finished("put")
    /\ cres.kind = "ok"
    /\ Len(calls) >= 2
    /\ backends[calls[1]].status = "broken"
    /\ ~backends[calls[1]].local
    /\ \E k \in 2..Len(calls) : backends[calls[k]].local /\ backends[calls[k]].has

(* -------------------- more claims on the local backend ----------------- *)

\* Process p commits in this step: its rename moves the temporary file into
\* place.
Commits(p) == pc[p] = "put_exit" /\ pc'[p] = "put_done"

\* C13: in a put the directory chain of the target exists before the
\* temporary file is opened; when the scope is left for the rename the whole
\* stream is in the temporary file; what is at a target path changes only in
\* the step of a rename; a put succeeds by exactly the step of its rename and
\* a put that fails changes no target path.
C13_StepOrder ==
    /\ [](\A p \in Procs :
            /\ pc[p] \in PutStages => DirChain(Dirname(fname[p])) \subseteq dirs
            /\ pc[p] \in {"put_copy", "put_exit"} =>
                  IsFile(files, TemporaryFile(fname[p], p))
            /\ pc[p] = "put_exit" =>
                  /\ pos[p] = Len(payload[p])
                  /\ files[TemporaryFile(fname[p], p)] = File(payload[p]))
    /\ [][/\ \A f \in Filenames :
              (\/ files'[PathJoin(f)] # files[PathJoin(f)]
               \/ lastWriter'[f] # lastWriter[f]
               \/ lastCommit'[f] # lastCommit[f]) =>
                  \E p \in Procs : Commits(p) /\ fname[p] = f
          /\ \A p \in Procs :
              (pc'[p] = "put_done" /\ pc[p] # "put_done") =>
                  /\ Commits(p)
                  /\ lastWriter'[fname[p]] = p
                  /\ files'[PathJoin(fname[p])] = files[TemporaryFile(fname[p], p)]
                  /\ ~IsFile(files', TemporaryFile(fname[p], p))
          /\ \A p \in Procs :
              (pc'[p] = "put_failed" /\ pc[p] # "put_failed") =>
                  /\ lastWriter' = lastWriter
                  /\ \A f \in Filenames : files'[PathJoin(f)] = files[PathJoin(f)]]_vars

\* A put has its whole stream in its closed temporary file and has not yet
\* renamed it: the target still holds the version another process committed.
C13_Witness ==
    \E p, q \in Procs :
        /\ p # q
        /\ pc[p] = "put_exit"
        /\ Len(payload[p]) = MaxLen
        /\ files[TemporaryFile(fname[p], p)] = File(payload[p])
        /\ lastWriter[fname[p]] = q
        /\ files[PathJoin(fname[p])] = File(Stream(q, MaxLen))

\* The class of the exception Python raises for a system call that failed
\* with the given error number: IOError from open() and from reading or
\* writing a file, OSError from os.rename(), both of them EnvironmentError
\* and neither of them one of the classes of pip_accel.exceptions.
ErrorClass(e) == IF e \in {"EIO", "ENOENT"} THEN "EnvironmentError" ELSE e

\* What the caller of put receives when put fails: put has no try statement,
\* so the exception raised inside it leaves it as it is.
PutRaises(p) == IF pc[p] = "put_failed" THEN ErrorClass(err[p]) ELSE "none"

\* C14: a put that fails on a file system operation raises CacheBackendError
\* to its caller, not the low-level error.
C14_FailureIsCacheBackendError ==
    \A p \in Procs :
        pc[p] = "put_failed" => IsA(PutRaises(p), "CacheBackendError")

\* C15: what an aborted put left behind - a temporary file of a killed
\* process, under another name or under the very name the new put uses -
\* never makes a later put fail and never shows in its result: a put fails
\* only by a fault of its own, its temporary file holds the bytes it has
\* copied and nothing else, and when it has committed (and nobody else has
\* since) get returns the path and the file there is exactly its payload.
C15_AbortedPutDoesNotBlock ==
    \A p \in Procs :
        /\ pc[p] = "put_failed" => err[p] = "EIO"
        /\ pc[p] \in {"put_copy", "put_exit"} =>
              files[TemporaryFile(fname[p], p)] = File(SubSeq(payload[p], 1, pos[p]))
        /\ (pc[p] = "put_done" /\ lastWriter[fname[p]] = p) =>
              /\ LocalGet(files, fname[p]) = PathJoin(fname[p])
              /\ files[PathJoin(fname[p])] = File(payload[p])

\* A put that found a longer stale file under its own temporary name has
\* committed, while the temporary file of another killed process still lies
\* in the directory.
C15_Witness ==
    \E p, q \in Procs :
        /\ p # q
        /\ debris = p
        /\ pc[p] = "put_done"
        /\ lastWriter[fname[p]] = p
        /\ files[PathJoin(fname[p])] = File(payload[p])
        /\ pc[q] = "idle"
        /\ IsFile(files, TemporaryFile(fname[p], q))
        /\ Len(files[TemporaryFile(fname[p], q)].data) > 0

\* No put is under way.
AllFinished == \A p \in Procs : pc[p] \notin PutStages

\* C16: when the concurrent puts on a filename have all finished, the file in
\* the cache is the payload of the put whose rename came last, whatever the
\* order in which the puts were called and wrote their temporary files.
C16_LastRenameWins ==
    \A f \in Filenames :
        (AllFinished /\ lastWriter[f] # 0) =>
            /\ files[PathJoin(f)] = lastCommit[f]
            /\ \A p \in Procs :
                  (pc[p] = "put_done" /\ fname[p] = f /\ lastWriter[f] = p) =>
                      files[PathJoin(f)] = File(payload[p])

\* Every process has put its own stream to the same filename and succeeded;
\* the file is the stream of the first process, whose rename came last.
C16_Witness ==
    /\ \A p \in Procs :
          /\ pc[p] = "put_done"
          /\ payload[p] = Stream(p, MaxLen)
          /\ fname[p] = fname[1]
    /\ lastWriter[fname[1]] = 1
    /\ files[PathJoin(fname[1])] = File(Stream(1, MaxLen))

\* C17: no step of a get or of a put - called, copying, committing, failing,
\* killed - makes a file of the cache absent, and a get of a file that is
\* there returns its path: once a get has returned a location, every later
\* get of that filename returns one.
C17_ArtifactsPersist ==
    [][\A f \in Filenames :
         IsFile(files, PathJoin(f)) =>
            /\ IsFile(files', PathJoin(f))
            /\ \A p \in Procs :
                  (pc[p] = "idle" /\ pc'[p] = "get_done" /\ fname'[p] = f) =>
                      result'[p] = PathJoin(f)]_vars

\* A get has returned the location of a file that a process committed, after
\* a later put of the same filename by that process failed halfway.
C17_Witness ==
    \E p, q \in Procs :
        /\ pc[p] = "get_done"
        /\ result[p] = PathJoin(fname[p])
        /\ IsFile(files, PathJoin(fname[p]))
        /\ pc[q] = "put_failed"
        /\ fname[q] = fname[p]
        /\ pos[q] > 0
        /\ lastWriter[fname[p]] = q

(* -------------------- more claims on the coordinator ------------------- *)

\* Backend i comes before backend j: its priority is lower, or the two are
\* equal and i was registered first.
Before(bs, i, j) ==
    \/ bs[i].priority < bs[j].priority
    \/ bs[i].priority = bs[j].priority /\ i < j

\* C18: in every get and every put of a session the backends are visited in
\* one and the same total order: by ascending priority, and in registration
\* order where priorities are equal; a backend is called when exactly the
\* backends before it in that order have been called.
C18_OneTotalOrder ==
    /\ \A i, j \in DOMAIN backends :
          i # j => (Before(backends, i, j) <=> ~Before(backends, j, i))
    /\ cop \in {"get", "put"} =>
          \A k \in DOMAIN calls :
              {calls[j] : j \in 1..(k - 1)} =
                  {i \in DOMAIN backends : Before(backends, i, calls[k])}

\* A put has written to three backends, the first two of equal priority, in
\* their registration order, and the artifact it stored is in them.
C18_Witness ==
    /\ Finished("put")
    /\ Len(calls) = 3
    /\ backends[calls[1]].priority = backends[calls[2]].priority
    /\ calls[1] < calls[2]
    /\ backends[calls[1]].has /\ backends[calls[2]].has

(* --------------------------- claims on progress ------------------------ *)

\* C19: a process never waits for another one: whatever the other processes
\* are doing - stalled in the middle of a put, or killed there - a process
\* that is idle can do its get or start its put and a process inside put
\* can take its next step; and a put of a process that is scheduled fairly
\* ends, committed or failed (unless the process itself is killed).
C19_NoWaiting ==
    /\ [](\A p \in Procs :
            /\ pc[p] \in PutStages => ENABLED Progress(p)
            /\ pc[p] = "idle" =>
                  \A f \in Filenames :
                      /\ ENABLED Get(p, f)
                      /\ \A b \in PayloadsOf(p) : ENABLED Put(p, f, b)
            /\ pc[p] \in {"get_done", "put_done", "put_failed"} => ENABLED Return(p))
    /\ (pc[1] \in PutStages ~> pc[1] \notin PutStages)

\* The first process has put its stream and committed it while another
\* process is stopped halfway through writing the same file.
C19_Witness ==
    \E q \in Procs \ {1} :
        /\ pc[1] = "put_done"
        /\ Len(payload[1]) = MaxLen
        /\ lastWriter[fname[1]] = 1
        /\ Writing(q, fname[1])

(* ------------------- claims on the exception hierarchy ----------------- *)

\* The classes next to CacheBackendError in the hierarchy, and those below
\* them.
Siblings ==
    {"NothingToDoError", "EnvironmentMismatchError", "UnknownDistributionFormat",
     "BinaryDistributionError", "InvalidSourceDistribution", "BuildFailed",
     "NoBuildOutput", "SystemDependencyError", "DependencyInstallationRefused",
     "DependencyInstallationFailed"}

\* Clause k of the try statement names class c.
Names(k, c) == k \in DOMAIN handler /\ handler[k] = c

\* C20: a CacheBackendDisabledError is caught by a clause for itself, for
\* CacheBackendError or for PipAcceleratorError, a CacheBackendError by a
\* clause for itself or for PipAcceleratorError but not by one for
\* CacheBackendDisabledError; with the clause for CacheBackendError written
\* first the one for CacheBackendDisabledError is never reached; none of the
\* sibling classes is caught by a clause for one of the two cache classes.
C20_FixedHierarchy ==
    caught # -1 =>
        /\ raised = "CacheBackendDisabledError" =>
              \A k \in DOMAIN handler :
                  handler[k] \in {"CacheBackendDisabledError", "CacheBackendError",
                                  "PipAcceleratorError"} => caught \in 1..k
        /\ raised = "CacheBackendError" =>
              /\ \A k \in DOMAIN handler :
                    handler[k] \in {"CacheBackendError", "PipAcceleratorError"} =>
                        caught \in 1..k
              /\ caught # 0 => handler[caught] # "CacheBackendDisabledError"
        /\ (Names(1, "CacheBackendError") /\ Names(2, "CacheBackendDisabledError")) =>
              caught # 2
        /\ (Names(1, "CacheBackendDisabledError") /\ Names(2, "CacheBackendError")) =>
              /\ raised = "CacheBackendDisabledError" => caught = 1
              /\ raised = "CacheBackendError" => caught = 2
        /\ raised \in Siblings =>
              /\ caught # 0 =>
                    handler[caught] \notin {"CacheBackendError", "CacheBackendDisabledError"}
              /\ Names(1, "PipAcceleratorError") => caught = 1

\* A CacheBackendDisabledError was raised in a try statement whose first
\* clause is for BuildFailed and whose second is for CacheBackendError, and
\* the second clause caught it.
C20_Witness ==
    /\ raised = "CacheBackendDisabledError"
    /\ handler = <<"BuildFailed", "CacheBackendError">>
    /\ caught = 2

====
